---- MODULE Spec2Model ----
(***************************************************************************)
(* Microsite pipeline: InboundOrchestrator.validateInput,                  *)
(* CreativeAIEngine.generateCreatives, SeoSemanticAgent.optimizeSEO,       *)
(* GeoDeploymentHub.executeGeoDeploy and MainOrchestrator.runPipeline.     *)
(*                                                                         *)
(* Strings are TLA+ strings; a character is a string of length 1.          *)
(* A value that may be missing (undefined) is a record with a kind field.  *)
(***************************************************************************)
EXTENDS Naturals, Sequences, FiniteSets, TLC

VARIABLES entry, brief, pc, project, genTasks, output, seoTasks, deployArgs,
          deployment, descriptor, error, calls,
          arg,         \* the argument of a direct call of truncate or optimizeSEO
          ret,         \* what a direct call returned
          settleOrder, \* history of a direct call of generateCreatives: its
                       \* tasks in the order of their completion
          clock,       \* the latest value Date.now() has returned
          issued       \* the identifiers the deployment provider has returned
                       \* to other calls of executeGeoDeploy

vars == <<entry, brief, pc, project, genTasks, output, seoTasks, deployArgs,
          deployment, descriptor, error, calls, arg, ret, settleOrder,
          clock, issued>>

----------------------------------------------------------------------------
(* Bounds of the model *)

\* longest target-locale list of a brief, and longest variant list handed
\* to executeGeoDeploy by a direct caller
MaxLocales == 3

\* number of distinct values Date.now() may return to a deployment
MaxClock == 2

\* longest text given to truncate by a direct caller
MaxText == 64

\* number of other calls of executeGeoDeploy served beside the one observed
MaxOtherRuns == 1

----------------------------------------------------------------------------
(* String primitives of the JavaScript runtime *)

UpperChars == "ABCDEFGHIJKLMNOPQRSTUVWXYZ"
LowerChars == "abcdefghijklmnopqrstuvwxyz"
DigitChars == "0123456789"

CharAt(s, i) == SubSeq(s, i, i)

HasChar(s, c) == \E i \in 1..Len(s) : CharAt(s, i) = c

IndexOfChar(s, c) == CHOOSE i \in 1..Len(s) :
                        /\ CharAt(s, i) = c
                        /\ \A j \in 1..(i - 1) : CharAt(s, j) # c

toLowerChar(c) == IF HasChar(UpperChars, c)
                  THEN CharAt(LowerChars, IndexOfChar(UpperChars, c))
                  ELSE c

toUpperChar(c) == IF HasChar(LowerChars, c)
                  THEN CharAt(UpperChars, IndexOfChar(LowerChars, c))
                  ELSE c

RECURSIVE toLowerCase(_)
toLowerCase(s) == IF s = "" THEN ""
                  ELSE toLowerChar(Head(s)) \o toLowerCase(Tail(s))

RECURSIVE toUpperCase(_)
toUpperCase(s) == IF s = "" THEN ""
                  ELSE toUpperChar(Head(s)) \o toUpperCase(Tail(s))

IsWhiteSpace(c) == c \in {" ", "\t", "\n"}

RECURSIVE trimStart(_)
trimStart(s) == IF s = "" THEN ""
                ELSE IF IsWhiteSpace(Head(s)) THEN trimStart(Tail(s))
                ELSE s

RECURSIVE trimEnd(_)
trimEnd(s) == IF s = "" THEN ""
              ELSE IF IsWhiteSpace(CharAt(s, Len(s)))
                   THEN trimEnd(SubSeq(s, 1, Len(s) - 1))
                   ELSE s

\* String.prototype.trim
trim(s) == trimEnd(trimStart(s))

\* String.prototype.substring(0, n)
substring0(s, n) == IF Len(s) <= n THEN s ELSE SubSeq(s, 1, n)

\* s.split(sep)[0]: the part of s before the first occurrence of sep
splitFirst(s, sep) == IF HasChar(s, sep)
                      THEN SubSeq(s, 1, IndexOfChar(s, sep) - 1)
                      ELSE s

----------------------------------------------------------------------------
(* Values that may be missing *)

Undefined == [kind |-> "undefined"]
Array(items) == [kind |-> "array", items |-> items]
Assets(logo, kw) == [kind |-> "object", logoUrl |-> logo, keywordsCsvUrl |-> kw]

IsMissing(v) == v.kind = "undefined"

----------------------------------------------------------------------------
(* InboundOrchestrator *)

\* new URL(url) without a base: the WHATWG parser fails when the input has no
\* scheme, and for a special scheme when the host is empty.
SchemeChars == LowerChars \o UpperChars \o DigitChars \o "+-."
SpecialSchemes == {"http", "https", "ws", "wss", "ftp"}

HasScheme(url) ==
    /\ HasChar(url, ":")
    /\ IndexOfChar(url, ":") > 1
    /\ HasChar(LowerChars \o UpperChars, CharAt(url, 1))
    /\ \A i \in 1..(IndexOfChar(url, ":") - 1) : HasChar(SchemeChars, CharAt(url, i))

RECURSIVE skipSlashes(_)
skipSlashes(s) == IF s = "" THEN ""
                  ELSE IF Head(s) \in {"/", "\\"} THEN skipSlashes(Tail(s))
                  ELSE s

UrlParses(url) ==
    /\ HasScheme(url)
    /\ LET colon  == IndexOfChar(url, ":")
           scheme == toLowerCase(SubSeq(url, 1, colon - 1))
           rest   == SubSeq(url, colon + 1, Len(url))
       IN  scheme \in SpecialSchemes => skipSlashes(rest) # ""

isValidUrl(url) == IF url = "" THEN FALSE ELSE UrlParses(url)

euLocales == {"it", "fr", "de", "es", "pt", "nl", "be", "at", "ie", "pl", "se", "fi", "dk"}

\* variant of isEuTargeted that compares the prefix as written, upper case included
RECURSIVE isEuTargetedCaseSensitive(_)
isEuTargetedCaseSensitive(locales) ==
    IF locales = <<>> THEN FALSE
    ELSE IF splitFirst(Head(locales), "-") \in euLocales THEN TRUE
    ELSE isEuTargetedCaseSensitive(Tail(locales))

\* the loop of computeGeoCompliance, leaving at the first EU locale
RECURSIVE isEuTargeted(_)
isEuTargeted(locales) ==
    IF locales = <<>> THEN FALSE
    ELSE IF toLowerCase(splitFirst(Head(locales), "-")) \in euLocales THEN TRUE
    ELSE isEuTargeted(Tail(locales))

\* variant of computeGeoCompliance that keeps non-EU data in the US
computeGeoComplianceUsDefault(locales) ==
    [requiresGDPR        |-> isEuTargeted(locales),
     cookieConsentActive |-> isEuTargeted(locales),
     dataResidency       |-> IF isEuTargeted(locales) THEN "EU" ELSE "US"]

computeGeoCompliance(locales) ==
    [requiresGDPR        |-> isEuTargeted(locales),
     cookieConsentActive |-> isEuTargeted(locales),
     dataResidency       |-> IF isEuTargeted(locales) THEN "EU" ELSE "GLOBAL"]

IfThen(cond, msg) == IF cond THEN <<msg>> ELSE <<>>

\* variant of validationErrors that leaves the keywords URL unchecked
validationErrorsNoKeywordsCheck(input) ==
       IfThen(input.campaignId = "" \/ Len(trim(input.campaignId)) < 3,
              "Invariant Violation: campaignId must be at least 3 characters.")
    \o IfThen(input.brandName = "" \/ Len(trim(input.brandName)) = 0,
              "Invariant Violation: brandName is required.")
    \o IfThen(input.coreMessage = "" \/ Len(trim(input.coreMessage)) < 10,
              "Quality Gate: coreMessage too short for AI generation (<10 chars).")
    \o IfThen(IsMissing(input.targetLocales) \/ Len(input.targetLocales.items) = 0,
              "Invariant Violation: At least one targetLocale is required.")
    \o IfThen(~isValidUrl(input.assets.logoUrl),
              "Asset Error: Invalid logoUrl format: " \o input.assets.logoUrl)

\* the errors validateInput collects, in the order of its checks;
\* input.assets and input.targetLocales are present here
validationErrors(input) ==
       IfThen(input.campaignId = "" \/ Len(trim(input.campaignId)) < 3,
              "Invariant Violation: campaignId must be at least 3 characters.")
    \o IfThen(input.brandName = "" \/ Len(trim(input.brandName)) = 0,
              "Invariant Violation: brandName is required.")
    \o IfThen(input.coreMessage = "" \/ Len(trim(input.coreMessage)) < 10,
              "Quality Gate: coreMessage too short for AI generation (<10 chars).")
    \o IfThen(IsMissing(input.targetLocales) \/ Len(input.targetLocales.items) = 0,
              "Invariant Violation: At least one targetLocale is required.")
    \o IfThen(~isValidUrl(input.assets.logoUrl),
              "Asset Error: Invalid logoUrl format: " \o input.assets.logoUrl)
    \o IfThen(~isValidUrl(input.assets.keywordsCsvUrl),
              "Asset Error: Invalid keywordsCsvUrl format: " \o input.assets.keywordsCsvUrl)

Threw(e) == [kind |-> "throw", error |-> e]
Returned(v) == [kind |-> "return", value |-> v]

\* validateInput: reading input.assets.logoUrl of a missing assets object and
\* iterating a missing locale list both raise a TypeError; the timestamp of the
\* project, which nothing reads, is left out
validateInput(input) ==
    IF IsMissing(input.assets) THEN Threw("TypeError")
    ELSE IF IsMissing(input.targetLocales) THEN Threw("TypeError")
    ELSE Returned([kind       |-> "project",
                   projectId  |-> input.campaignId,
                   status     |-> IF Len(validationErrors(input)) > 0
                                  THEN "FAILED" ELSE "VALIDATED",
                   payload    |-> input,
                   compliance |-> computeGeoCompliance(input.targetLocales.items)])

----------------------------------------------------------------------------
(* CreativeAIEngine *)

textHeavyLocales == {"de-DE", "ru-RU", "fi-FI"}

determineLayout(locale) == IF locale \in textHeavyLocales
                           THEN "layout-wide-v2" ELSE "layout-minimal-v1"

localizedPrefix(locale) == "[" \o toUpperCase(locale) \o "]"

\* the variant the generation stub derives from the core message and locale
stubAIGeneration(coreMessage, locale) ==
    [locale    |-> locale,
     heroTitle |-> localizedPrefix(locale) \o " Future of Living: "
                   \o substring0(coreMessage, 20) \o "...",
     bodyCopy  |-> localizedPrefix(locale) \o " Experience the " \o coreMessage
                   \o " in a way that respects your local culture."
                   \o " This is a generated description ensuring semantic consistency.",
     ctaText   |-> localizedPrefix(locale) \o " Discover More",
     layoutId  |-> determineLayout(locale)]

\* String(reason) of the error the failing provider of the test harness raises
providerError(locale) == "Error: Simulated API Timeout for " \o locale

\* String(reason) of an error of a provider that does not name the locale
providerErrorUntagged == "Error: Rate limit exceeded"

\* the reasons a generation task may fail with: the pipeline runs with the
\* failing provider of the test harness, a direct caller of generateCreatives
\* with a provider that may also fail without naming the locale
FailureReasons(caller, locale) ==
    IF caller = "generateCreatives"
    THEN {providerError(locale), providerErrorUntagged}
    ELSE {providerError(locale)}

Pending == [status |-> "pending"]
Fulfilled(v) == [status |-> "fulfilled", value |-> v]
Rejected(r) == [status |-> "rejected", reason |-> r]

\* Promise.allSettled: resolves once every promise has settled, never rejects
allSettled(tasks) ==
    IF \E i \in 1..Len(tasks) : tasks[i].status = "pending" THEN "pending"
    ELSE "resolved"

\* Promise.all: rejects as soon as one promise has rejected, resolves once
\* every promise has fulfilled
all(tasks) ==
    IF \E i \in 1..Len(tasks) : tasks[i].status = "rejected" THEN "rejected"
    ELSE IF \E i \in 1..Len(tasks) : tasks[i].status = "pending" THEN "pending"
    ELSE "resolved"

\* variant of promiseValues that lists the values last promise first
promiseValuesReversed(tasks) ==
    [i \in 1..Len(tasks) |-> tasks[Len(tasks) + 1 - i].value]

\* the value a resolved Promise.all carries: the promises' values, in the order
\* of the promises
promiseValues(tasks) == [i \in 1..Len(tasks) |-> tasks[i].value]

\* the reason a rejected Promise.all carries: that of the first rejected promise
firstRejection(tasks) ==
    tasks[CHOOSE i \in 1..Len(tasks) :
             /\ tasks[i].status = "rejected"
             /\ \A j \in 1..(i - 1) : tasks[j].status # "rejected"].reason

\* the results.forEach of generateCreatives: fulfilled values, in result order
RECURSIVE fulfilledValues(_)
fulfilledValues(results) ==
    IF results = <<>> THEN <<>>
    ELSE IF Head(results).status = "fulfilled"
         THEN <<Head(results).value>> \o fulfilledValues(Tail(results))
         ELSE fulfilledValues(Tail(results))

\* the results.forEach of generateCreatives: rejection reasons, in result order
RECURSIVE rejectionReasons(_)
rejectionReasons(results) ==
    IF results = <<>> THEN <<>>
    ELSE IF Head(results).status = "fulfilled"
         THEN rejectionReasons(Tail(results))
         ELSE <<Head(results).reason>> \o rejectionReasons(Tail(results))

\* variant of aggregate that collects the variants as their tasks complete
aggregateInCompletionOrder(projectId, results) ==
    [kind            |-> "output",
     projectId       |-> projectId,
     variants        |-> fulfilledValues([k \in 1..Len(settleOrder) |->
                                              results[settleOrder[k]]]),
     generationModel |-> "gpt-4o-stub-v1",
     errors          |-> IF Len(rejectionReasons(results)) > 0
                         THEN Array(rejectionReasons(results)) ELSE Undefined]

\* variant of aggregate that leaves the failure messages out
aggregateWithoutErrors(projectId, results) ==
    [kind            |-> "output",
     projectId       |-> projectId,
     variants        |-> fulfilledValues(results),
     generationModel |-> "gpt-4o-stub-v1",
     errors          |-> Undefined]

\* the CreativeEngineOutput built from the settled results
aggregate(projectId, results) ==
    [kind            |-> "output",
     projectId       |-> projectId,
     variants        |-> fulfilledValues(results),
     generationModel |-> "gpt-4o-stub-v1",
     errors          |-> IF Len(rejectionReasons(results)) > 0
                         THEN Array(rejectionReasons(results)) ELSE Undefined]

\* variant of generationRejects that turns away FAILED projects only
generationRejectsFailedOnly(p) == p.status = "FAILED"

\* the validation gate of generateCreatives
generationRejects(p) == p.status # "VALIDATED"

\* String(reason) of the error a failing persistence sink raises
sinkError == "Error: Simulated DB write failure"

----------------------------------------------------------------------------
(* SeoSemanticAgent *)

MAX_TITLE_LENGTH == 60
MAX_DESC_LENGTH == 160

\* variant of truncate that cuts at the limit and then appends the marker
truncateThenAppend(text, maxLength) ==
    IF Len(text) <= maxLength THEN text
    ELSE SubSeq(text, 1, maxLength) \o "..."

truncate(text, maxLength) ==
    IF Len(text) <= maxLength THEN text
    ELSE SubSeq(text, 1, maxLength - 3) \o "..."

stubUrlBuilder(locale) == "https://microsite-factory.com/" \o locale \o "/campaign-mvc"

supportedLocales == <<"en-US", "it-IT", "fr-FR", "es-ES", "de-DE">>

generateHreflangMap ==
    [loc \in {supportedLocales[i] : i \in 1..Len(supportedLocales)} |-> stubUrlBuilder(loc)]

\* the third Spanish keyword is written without its accent
stubKeywordDatabase(locale) ==
    CASE locale = "en-US" -> <<"Best Villas", "Luxury Living", "Investment">>
      [] locale = "it-IT" -> <<"Migliori Ville", "Vita di Lusso", "Investimenti">>
      [] locale = "fr-FR" -> <<"Meilleures Villas", "Vie de Luxe", "Investissement">>
      [] locale = "es-ES" -> <<"Mejores Villas", "Vida de Lujo", "Inversion">>
      [] locale = "de-DE" -> <<"Besten Villen", "Luxusleben", "Investition">>
      [] OTHER            -> <<"Luxury Real Estate">>

\* variant of generateMetadata that leaves the description at its full length
generateMetadataUncutDescription(variant, keyword) ==
    LET title       == truncate(variant.heroTitle \o " | " \o keyword, MAX_TITLE_LENGTH)
        description == substring0(variant.bodyCopy, 100) \o "... " \o variant.ctaText
        canonicalUrl == stubUrlBuilder(variant.locale)
    IN  [title          |-> title,
         description    |-> description,
         ogTags         |-> [ogTitle |-> title, ogDescription |-> description,
                             ogLocale |-> variant.locale, ogUrl |-> canonicalUrl],
         canonicalUrl   |-> canonicalUrl,
         hreflang       |-> generateHreflangMap,
         structuredData |-> [context |-> "https://schema.org", type |-> "WebPage",
                             name |-> title, description |-> description,
                             inLanguage |-> variant.locale]]

\* variant of generateMetadata whose hreflang map also names the variant's locale
generateMetadataOwnLocale(variant, keyword) ==
    LET title       == truncate(variant.heroTitle \o " | " \o keyword, MAX_TITLE_LENGTH)
        description == truncate(substring0(variant.bodyCopy, 100) \o "... " \o variant.ctaText,
                                MAX_DESC_LENGTH)
        canonicalUrl == stubUrlBuilder(variant.locale)
    IN  [title          |-> title,
         description    |-> description,
         ogTags         |-> [ogTitle |-> title, ogDescription |-> description,
                             ogLocale |-> variant.locale, ogUrl |-> canonicalUrl],
         canonicalUrl   |-> canonicalUrl,
         hreflang       |-> [loc \in DOMAIN generateHreflangMap \cup {variant.locale}
                                |-> stubUrlBuilder(loc)],
         structuredData |-> [context |-> "https://schema.org", type |-> "WebPage",
                             name |-> title, description |-> description,
                             inLanguage |-> variant.locale]]

generateMetadata(variant, keyword) ==
    LET title       == truncate(variant.heroTitle \o " | " \o keyword, MAX_TITLE_LENGTH)
        description == truncate(substring0(variant.bodyCopy, 100) \o "... " \o variant.ctaText,
                                MAX_DESC_LENGTH)
        canonicalUrl == stubUrlBuilder(variant.locale)
    IN  [title          |-> title,
         description    |-> description,
         ogTags         |-> [ogTitle |-> title, ogDescription |-> description,
                             ogLocale |-> variant.locale, ogUrl |-> canonicalUrl],
         canonicalUrl   |-> canonicalUrl,
         hreflang       |-> generateHreflangMap,
         structuredData |-> [context |-> "https://schema.org", type |-> "WebPage",
                             name |-> title, description |-> description,
                             inLanguage |-> variant.locale]]

\* a property an object lacks reads as undefined
HasField(object, name) == name \in DOMAIN object

\* variant of seoRejects that forgets the headline
seoRejectsLocaleOnly(variant) ==
    ~HasField(variant, "locale") \/ variant.locale = ""

\* the guard of optimizeSEO: a missing or empty locale or headline is rejected
seoRejects(variant) ==
    \/ ~HasField(variant, "locale") \/ variant.locale = ""
    \/ ~HasField(variant, "heroTitle") \/ variant.heroTitle = ""

\* the message of the guard; a missing locale is interpolated as "undefined"
seoError(variant) ==
    "[SeoSemanticAgent] Invariant Violation: Invalid input variant for locale "
       \o (IF HasField(variant, "locale") THEN variant.locale ELSE "undefined")

primaryKeyword(keywords) ==
    IF Len(keywords) = 0 \/ keywords[1] = "" THEN "Brand" ELSE keywords[1]

\* variant of optimizeSEO that returns the headline as cut for the title
optimizeSEOCutHeadline(variant) ==
    LET keywords == stubKeywordDatabase(variant.locale)
    IN  [locale          |-> variant.locale,
         heroTitle       |-> truncate(variant.heroTitle, MAX_TITLE_LENGTH),
         bodyCopy        |-> variant.bodyCopy,
         ctaText         |-> variant.ctaText,
         layoutId        |-> variant.layoutId,
         seo             |-> generateMetadata(variant, primaryKeyword(keywords)),
         keywordsApplied |-> keywords]

\* the optimized variant optimizeSEO returns for a variant its guard accepts
optimizeSEO(variant) ==
    LET keywords == stubKeywordDatabase(variant.locale)
    IN  [locale          |-> variant.locale,
         heroTitle       |-> variant.heroTitle,
         bodyCopy        |-> variant.bodyCopy,
         ctaText         |-> variant.ctaText,
         layoutId        |-> variant.layoutId,
         seo             |-> generateMetadata(variant, primaryKeyword(keywords)),
         keywordsApplied |-> keywords]

----------------------------------------------------------------------------
(* GeoDeploymentHub *)

euPrefixes == {"it", "fr", "de", "es", "pt", "nl", "be", "at", "ie"}

isEuLocale(locale) == toLowerCase(splitFirst(locale, "-")) \in euPrefixes

RECURSIVE euCount(_)
euCount(locales) ==
    IF locales = <<>> THEN 0
    ELSE (IF isEuLocale(Head(locales)) THEN 1 ELSE 0) + euCount(Tail(locales))

RECURSIVE usCount(_)
usCount(locales) ==
    IF locales = <<>> THEN 0
    ELSE (IF isEuLocale(Head(locales)) THEN 0 ELSE 1) + usCount(Tail(locales))

\* variant of determineEdgeRegion that tests for a non-EU locale first
determineEdgeRegionUsFirst(locales) ==
    IF usCount(locales) > 0 THEN "iad1"
    ELSE IF euCount(locales) > usCount(locales) THEN "fra1"
    ELSE "global"

determineEdgeRegion(locales) ==
    IF euCount(locales) > usCount(locales) THEN "fra1"
    ELSE IF usCount(locales) > 0 THEN "iad1"
    ELSE "global"

\* variant of deployRejects that also rejects a single variant
deployRejectsSingle(seoVariants) ==
    IsMissing(seoVariants) \/ Len(seoVariants.items) <= 1

\* variant of deployRejects that tests for a missing list only
deployRejectsMissingOnly(seoVariants) == IsMissing(seoVariants)

\* the guard of executeGeoDeploy: a missing or empty variant list is rejected
deployRejects(seoVariants) ==
    IsMissing(seoVariants) \/ Len(seoVariants.items) = 0

\* variant of middlewareRules that derives consent from the variants' locales
middlewareRulesFromLocales(seoVariants, compliance) ==
    [geoBlocking |-> FALSE,
     consentRequired |-> \E i \in 1..Len(seoVariants) : isEuLocale(seoVariants[i].locale)]

\* the middleware rules of executeGeoDeploy
middlewareRules(seoVariants, compliance) ==
    [geoBlocking |-> FALSE, consentRequired |-> compliance.requiresGDPR]

localesOf(seoVariants) == [i \in 1..Len(seoVariants) |-> seoVariants[i].locale]

Digits36 == DigitChars \o LowerChars

\* Number.prototype.toString(36)
RECURSIVE toString36(_)
toString36(n) == IF n < 36 THEN CharAt(Digits36, n + 1)
                 ELSE toString36(n \div 36) \o CharAt(Digits36, (n % 36) + 1)

\* the identifier stubVercelDeploy returns when Date.now() is now
stubVercelDeploy(rules, region, now) == "dpl_" \o region \o "_" \o toString36(now)

\* variant of stubTelemetryProvisioning whose endpoint does not name the deployment
stubTelemetryProvisioningShared(deploymentId) ==
    "https://analytics.microsite-factory.com/v1/events/"

stubTelemetryProvisioning(deploymentId) ==
    "https://analytics.microsite-factory.com/v1/events/" \o deploymentId

----------------------------------------------------------------------------
(* MainOrchestrator.runPipeline *)

\* variant of haltsPipeline that tests for a status validateInput never sets
haltsOnInvalid(validated) == validated.status = "INVALID"

\* runPipeline stops after validation when the project's status is FAILED
haltsPipeline(validated) == validated.status = "FAILED"

\* variant of deployCompliance that recomputes the policy from the variants
deployComplianceFromVariants(validated, seoVariants) ==
    computeGeoCompliance([i \in 1..Len(seoVariants) |-> seoVariants[i].locale])

\* the compliance value runPipeline hands to executeGeoDeploy
deployCompliance(validated, seoVariants) == validated.compliance

\* variant of awaitGeneration that rejects with the first failed task
awaitGenerationFailFast(tasks) == all(tasks)

\* the await of generateCreatives on its generation tasks
awaitGeneration(tasks) == allSettled(tasks)

\* variant of awaitOptimization that never resolves for an empty task list
awaitOptimizationNeedsOne(tasks) == IF Len(tasks) = 0 THEN "pending" ELSE all(tasks)

\* the await of runPipeline on its optimization tasks
awaitOptimization(tasks) == all(tasks)

----------------------------------------------------------------------------
(* Inputs *)

\* locales of the briefs given to validateInput and of the variants given to
\* executeGeoDeploy by direct callers
Locales == {"en-US", "it-IT", "DE", "fi-FI", ""}

\* locales of the briefs given to runPipeline
PipelineLocales == {"en-US", "it-IT", "fi-FI", ""}

RECURSIVE SeqsUpTo(_, _)
SeqsUpTo(S, n) ==
    IF n = 0 THEN {<<>>}
    ELSE LET shorter == SeqsUpTo(S, n - 1)
         IN  shorter \cup {Append(q, x) : q \in shorter, x \in S}

LocaleLists == SeqsUpTo(Locales, MaxLocales)

CampaignIds  == {"", " ab ", "abc"}
BrandNames   == {"", "  ", "Bb"}
CoreMessages == {" GDPR rule ", "GDPR rules"}
AssetValues  == {Undefined,
                 Assets("logo.png", "https://x.com/k.csv"),
                 Assets("https://x.com/l.png", "https://"),
                 Assets("https://x.com/l.png", "https://x.com/k.csv")}

\* the briefs given to validateInput
Briefs == [campaignId    : CampaignIds,
           brandName     : BrandNames,
           coreMessage   : CoreMessages,
           targetLocales : {Undefined} \cup {Array(l) : l \in LocaleLists},
           assets        : AssetValues]

\* the briefs given to runPipeline
PipelineBriefs ==
    [campaignId    : {" ab ", "abc"},
     brandName     : {"Bb"},
     coreMessage   : {"GDPR rules"},
     targetLocales : {Undefined} \cup {Array(l) : l \in SeqsUpTo(PipelineLocales, MaxLocales)},
     assets        : {Undefined,
                      Assets("logo.png", "https://x.com/k.csv"),
                      Assets("https://x.com/l.png", "https://x.com/k.csv")}]

\* the briefs of the runs followed to their end: a locale that is generated and
\* optimized and a locale whose optimization fails, in lists of every length
LiveLocales == {"en-US", ""}
LiveBriefs ==
    [campaignId    : {"abc"},
     brandName     : {"Bb"},
     coreMessage   : {"GDPR rules"},
     targetLocales : {Undefined} \cup {Array(l) : l \in SeqsUpTo(LiveLocales, MaxLocales)},
     assets        : {Undefined,
                      Assets("logo.png", "https://x.com/k.csv"),
                      Assets("https://x.com/l.png", "https://x.com/k.csv")}]

\* a variant as a direct caller of executeGeoDeploy builds it
forgedVariant(locale) ==
    [locale |-> locale, heroTitle |-> "Bonjeur", bodyCopy |-> "Oui", ctaText |-> "Allez",
     layoutId |-> "std",
     seo |-> [title |-> "", description |-> "",
              ogTags |-> [ogTitle |-> "", ogDescription |-> "", ogLocale |-> "", ogUrl |-> ""],
              canonicalUrl |-> "", hreflang |-> << >>,
              structuredData |-> [context |-> "", type |-> "", name |-> "",
                                  description |-> "", inLanguage |-> ""]],
     keywordsApplied |-> << >>]

\* the policies of direct callers: the two the validator computes, and a US one
Policies == {[requiresGDPR |-> TRUE, cookieConsentActive |-> TRUE, dataResidency |-> "EU"],
             [requiresGDPR |-> FALSE, cookieConsentActive |-> FALSE, dataResidency |-> "GLOBAL"],
             [requiresGDPR |-> FALSE, cookieConsentActive |-> TRUE, dataResidency |-> "US"]}

\* the calls of direct callers: a list of forged variants, or no list at all
DeployCalls ==
    {[kind |-> "args",
      seoVariants |-> Array([i \in 1..Len(l) |-> forgedVariant(l[i])]),
      compliance |-> c] : l \in LocaleLists, c \in Policies}
    \cup {[kind |-> "args", seoVariants |-> Undefined, compliance |-> c] : c \in Policies}

Timestamps == 1..MaxClock

\* the projects given to generateCreatives by direct callers: any status, also
\* one outside the two of the type
DirectProjects ==
    {[kind       |-> "project",
      projectId  |-> "abc",
      status     |-> st,
      payload    |-> [campaignId    |-> "abc",
                      brandName     |-> "Bb",
                      coreMessage   |-> "GDPR rules",
                      targetLocales |-> Array(l),
                      assets        |-> Assets("https://x.com/l.png", "https://x.com/k.csv")],
      compliance |-> computeGeoCompliance(l)] :
        st \in {"VALIDATED", "FAILED", "PENDING"},
        l \in SeqsUpTo({"en-US", "de-DE", "it-IT"}, MaxLocales)}

\* the first n characters of the pattern repeated without end
RECURSIVE Fill(_, _)
Fill(pattern, n) ==
    IF n <= Len(pattern) THEN SubSeq(pattern, 1, n)
    ELSE pattern \o Fill(pattern, n - Len(pattern))

\* the calls of truncate by direct callers, at the title limit
TruncateCalls ==
    {[text |-> Fill(p, n), maxLength |-> MAX_TITLE_LENGTH] :
        p \in {"abcdefghij", "Villa. ", "..."}, n \in 0..MaxText}

\* the variants given to optimizeSEO by direct callers: any of the locale and
\* the headline may be missing or empty
SeoLocales == {"", "en-US", "it-IT", "fr-FR", "es-ES", "de-DE", "fi-FI", "xx"}
SeoTitles  == {"", "Hi", Fill("Future of Living ", 70)}
SeoBodies  == {"", "Body", Fill("A home by the sea. ", 100), Fill("A home by the sea. ", 130)}
SeoCtas    == {"Go", Fill("Book a private viewing today ", 70)}
SeoCalls ==
         {[locale |-> l, heroTitle |-> h, bodyCopy |-> b, ctaText |-> c, layoutId |-> "std"] :
             l \in SeoLocales, h \in SeoTitles, b \in SeoBodies, c \in SeoCtas}
    \cup {[heroTitle |-> h, bodyCopy |-> b, ctaText |-> "Go", layoutId |-> "std"] :
             h \in SeoTitles, b \in SeoBodies}
    \cup {[locale |-> l, bodyCopy |-> b, ctaText |-> "Go", layoutId |-> "std"] :
             l \in SeoLocales, b \in SeoBodies}
    \cup {[bodyCopy |-> b, ctaText |-> "Go", layoutId |-> "std"] : b \in SeoBodies}

NoCalls == [generation |-> 0, persistence |-> 0, keywords |-> 0,
            deployment |-> 0, telemetry |-> 0]

----------------------------------------------------------------------------
(* State machine *)

\* a caller runs the pipeline on a brief
InitPipeline ==
    /\ entry = "runPipeline"
    /\ brief \in PipelineBriefs
    /\ pc = "validateInput"
    /\ deployArgs = Undefined

\* a caller invokes executeGeoDeploy directly, with variants and a policy of its own
InitDeploy ==
    /\ entry = "executeGeoDeploy"
    /\ brief = Undefined
    /\ pc = "deploy"
    /\ deployArgs \in DeployCalls

InitLocals ==
    /\ project = Undefined
    /\ genTasks = <<>>
    /\ output = Undefined
    /\ seoTasks = <<>>
    /\ deployment = Undefined
    /\ descriptor = Undefined
    /\ error = ""
    /\ calls = NoCalls
    /\ arg = Undefined
    /\ ret = Undefined
    /\ settleOrder = <<>>
    /\ clock = 1
    /\ issued = {}

Init == (InitPipeline \/ InitDeploy) /\ InitLocals

Fail(e) == pc' = "failed" /\ error' = e

\* runPipeline awaits validateInput
ValidateInput ==
    /\ pc = "validateInput"
    /\ LET r == validateInput(brief)
       IN  IF r.kind = "throw"
           THEN Fail(r.error) /\ UNCHANGED project
           ELSE project' = r.value /\ pc' = "validated" /\ UNCHANGED error
    /\ UNCHANGED <<entry, brief, genTasks, output, seoTasks, deployArgs,
                   deployment, descriptor, calls, arg, ret, settleOrder,
                   clock, issued>>

\* runPipeline throws on a FAILED project
HaltPipeline ==
    /\ entry = "runPipeline"
    /\ pc = "validated"
    /\ haltsPipeline(project)
    /\ Fail("Pipeline Halted: Input validation failed.")
    /\ UNCHANGED <<entry, brief, project, genTasks, output, seoTasks, deployArgs,
                   deployment, descriptor, calls, arg, ret, settleOrder,
                   clock, issued>>

\* generateCreatives: the status gate, then one generation task per target locale
GenerateCreatives ==
    /\ entry \in {"runPipeline", "generateCreatives"}
    /\ pc = "validated"
    /\ entry = "runPipeline" => ~haltsPipeline(project)
    /\ IF generationRejects(project)
       THEN /\ Fail("[CreativeAIEngine] Invariant Violation: Cannot process project with status "
                    \o project.status)
            /\ UNCHANGED <<genTasks, calls>>
       ELSE /\ genTasks' = [i \in 1..Len(project.payload.targetLocales.items) |-> Pending]
            /\ calls' = [calls EXCEPT !.generation =
                            @ + Len(project.payload.targetLocales.items)]
            /\ pc' = "generating"
            /\ UNCHANGED error
    /\ UNCHANGED <<entry, brief, project, output, seoTasks, deployArgs,
                   deployment, descriptor, arg, ret, settleOrder,
                   clock, issued>>

\* one generation task settles: the provider returns a variant or fails
SettleGeneration ==
    /\ pc = "generating"
    /\ \E i \in 1..Len(genTasks) :
          /\ genTasks[i].status = "pending"
          /\ LET locale == project.payload.targetLocales.items[i]
             IN  \E result \in {Fulfilled(stubAIGeneration(project.payload.coreMessage,
                                                            locale))}
                                \cup {Rejected(r) : r \in FailureReasons(entry, locale)} :
                    genTasks' = [genTasks EXCEPT ![i] = result]
          /\ settleOrder' = IF entry = "generateCreatives"
                            THEN Append(settleOrder, i) ELSE settleOrder
    /\ UNCHANGED <<entry, brief, pc, project, output, seoTasks, deployArgs,
                   deployment, descriptor, error, calls, arg, ret,
                   clock, issued>>

\* variant of AggregateAndPersist that resumes as soon as one task has settled
\* and aggregates the results it has
AggregateWithoutBarrier ==
    /\ pc = "generating"
    /\ \E i \in 1..Len(genTasks) : genTasks[i].status # "pending"
    /\ output' = aggregate(project.projectId,
                           SelectSeq(genTasks, LAMBDA t : t.status # "pending"))
    /\ calls' = [calls EXCEPT !.persistence = @ + 1]
    /\ pc' = "persisting"
    /\ UNCHANGED <<entry, brief, project, genTasks, seoTasks, deployArgs,
                   deployment, descriptor, error, arg, ret, settleOrder,
                   clock, issued>>

\* generateCreatives resumes from its await: aggregation, then the persistence call
AggregateAndPersist ==
    /\ pc = "generating"
    /\ awaitGeneration(genTasks) # "pending"
    /\ IF awaitGeneration(genTasks) = "rejected"
       THEN /\ Fail(firstRejection(genTasks))
            /\ UNCHANGED <<output, calls>>
       ELSE /\ output' = aggregate(project.projectId, genTasks)
            /\ calls' = [calls EXCEPT !.persistence = @ + 1]
            /\ pc' = "persisting"
            /\ UNCHANGED error
    /\ UNCHANGED <<entry, brief, project, genTasks, seoTasks, deployArgs,
                   deployment, descriptor, arg, ret, settleOrder,
                   clock, issued>>

\* the persistence call returns (the sink of the repository never fails),
\* variant of StartOptimization that stops the run when no variant was generated
StartOptimizationUnlessEmpty ==
    /\ entry = "runPipeline"
    /\ pc = "persisting"
    /\ IF Len(output.variants) = 0
       THEN /\ Fail("Pipeline Halted: No variants generated.")
            /\ UNCHANGED <<seoTasks, calls>>
       ELSE /\ seoTasks' = [i \in 1..Len(output.variants) |->
                              IF seoRejects(output.variants[i])
                              THEN Rejected(seoError(output.variants[i]))
                              ELSE Pending]
            /\ calls' = [calls EXCEPT !.keywords =
                            @ + Cardinality({i \in 1..Len(output.variants) :
                                                ~seoRejects(output.variants[i])})]
            /\ pc' = "optimizing"
            /\ UNCHANGED error
    /\ UNCHANGED <<entry, brief, project, genTasks, output, deployArgs,
                   deployment, descriptor, arg, ret, settleOrder,
                   clock, issued>>

\* generateCreatives returns its output, and runPipeline starts optimizeSEO on
\* every variant: a variant the guard rejects is a rejected promise at once, the
\* others wait for the keyword lookup
StartOptimization ==
    /\ entry = "runPipeline"
    /\ pc = "persisting"
    /\ seoTasks' = [i \in 1..Len(output.variants) |->
                      IF seoRejects(output.variants[i])
                      THEN Rejected(seoError(output.variants[i]))
                      ELSE Pending]
    /\ calls' = [calls EXCEPT !.keywords =
                    @ + Cardinality({i \in 1..Len(output.variants) :
                                        ~seoRejects(output.variants[i])})]
    /\ pc' = "optimizing"
    /\ UNCHANGED <<entry, brief, project, genTasks, output, deployArgs,
                   deployment, descriptor, error, arg, ret, settleOrder,
                   clock, issued>>

\* a keyword lookup returns and its optimizeSEO call completes; a rejection
\* already delivered to Promise.all is handled first
SettleOptimization ==
    /\ \/ pc = "optimizing" /\ awaitOptimization(seoTasks) = "pending"
       \/ pc = "failed" /\ seoTasks # <<>>
    /\ \E i \in 1..Len(seoTasks) :
          /\ seoTasks[i].status = "pending"
          /\ seoTasks' = [seoTasks EXCEPT ![i] = Fulfilled(optimizeSEO(output.variants[i]))]
    /\ UNCHANGED <<entry, brief, pc, project, genTasks, output, deployArgs,
                   deployment, descriptor, error, calls,
                   arg, ret, settleOrder, clock, issued>>

\* variant of OptimizationFails that deploys the variants optimized so far
OptimizationSkipsFailures ==
    /\ pc = "optimizing"
    /\ awaitOptimization(seoTasks) = "rejected"
    /\ deployArgs' = [kind |-> "args", seoVariants |-> Array(fulfilledValues(seoTasks)),
                      compliance |-> deployCompliance(project, fulfilledValues(seoTasks))]
    /\ pc' = "deploy"
    /\ UNCHANGED <<entry, brief, project, genTasks, output, seoTasks,
                   deployment, descriptor, error, calls, arg, ret, settleOrder,
                   clock, issued>>

\* Promise.all rejects with the first rejection and runPipeline throws it
OptimizationFails ==
    /\ pc = "optimizing"
    /\ awaitOptimization(seoTasks) = "rejected"
    /\ Fail(firstRejection(seoTasks))
    /\ UNCHANGED <<entry, brief, project, genTasks, output, seoTasks, deployArgs,
                   deployment, descriptor, calls, arg, ret, settleOrder,
                   clock, issued>>

\* variant of CallDeploy that goes on as soon as one variant is optimized
CallDeployEarly ==
    /\ pc = "optimizing"
    /\ \E i \in 1..Len(seoTasks) : seoTasks[i].status = "fulfilled"
    /\ deployArgs' = [kind |-> "args", seoVariants |-> Array(fulfilledValues(seoTasks)),
                      compliance |-> deployCompliance(project, fulfilledValues(seoTasks))]
    /\ pc' = "deploy"
    /\ UNCHANGED <<entry, brief, project, genTasks, output, seoTasks,
                   deployment, descriptor, error, calls, arg, ret, settleOrder,
                   clock, issued>>

\* Promise.all resolves and runPipeline calls executeGeoDeploy
CallDeploy ==
    /\ pc = "optimizing"
    /\ awaitOptimization(seoTasks) = "resolved"
    /\ LET seoVariants == promiseValues(seoTasks)
       IN  deployArgs' = [kind |-> "args", seoVariants |-> Array(seoVariants),
                          compliance |-> deployCompliance(project, seoVariants)]
    /\ pc' = "deploy"
    /\ UNCHANGED <<entry, brief, project, genTasks, output, seoTasks,
                   deployment, descriptor, error, calls,
                   arg, ret, settleOrder, clock, issued>>

\* executeGeoDeploy up to its first await: the guard, the rules, the region,
\* and the call of the deployment provider
ExecuteGeoDeploy ==
    /\ pc = "deploy"
    /\ IF deployRejects(deployArgs.seoVariants)
       THEN /\ Fail("[GeoDeploymentHub] Invariant Violation: No variants provided for deployment.")
            /\ UNCHANGED <<deployment, calls>>
       ELSE /\ deployment' =
                 [kind |-> "deployment",
                  middlewareRules |-> middlewareRules(deployArgs.seoVariants.items,
                                                      deployArgs.compliance),
                  targetRegion |->
                      determineEdgeRegion(localesOf(deployArgs.seoVariants.items)),
                  deploymentId |-> ""]
            /\ calls' = [calls EXCEPT !.deployment = @ + 1]
            /\ pc' = "deploying"
            /\ UNCHANGED error
    /\ UNCHANGED <<entry, brief, project, genTasks, output, seoTasks, deployArgs,
                   descriptor, arg, ret, settleOrder, clock, issued>>

\* the deployment provider returns an identifier; the telemetry call is made with it
DeployReturns ==
    /\ pc = "deploying"
    /\ \E now \in Timestamps :
          /\ now >= clock
          /\ clock' = now
          /\ deployment' = [deployment EXCEPT !.deploymentId =
                               stubVercelDeploy(deployment.middlewareRules,
                                                deployment.targetRegion, now)]
    /\ calls' = [calls EXCEPT !.telemetry = @ + 1]
    /\ pc' = "telemetry"
    /\ UNCHANGED <<entry, brief, project, genTasks, output, seoTasks, deployArgs,
                   descriptor, error, arg, ret, settleOrder, issued>>

\* the telemetry provisioner returns and executeGeoDeploy returns the descriptor
TelemetryReturns ==
    /\ pc = "telemetry"
    /\ descriptor' = [kind |-> "descriptor",
                      deploymentId |-> deployment.deploymentId,
                      edgeRegion |-> deployment.targetRegion,
                      isLive |-> TRUE,
                      telemetryEndpoint |-> stubTelemetryProvisioning(deployment.deploymentId),
                      middlewareRules |-> deployment.middlewareRules]
    /\ pc' = "done"
    /\ UNCHANGED <<entry, brief, project, genTasks, output, seoTasks, deployArgs,
                   deployment, error, calls, arg, ret, settleOrder,
                   clock, issued>>

Next ==
    \/ ValidateInput
    \/ HaltPipeline
    \/ GenerateCreatives
    \/ SettleGeneration
    \/ AggregateAndPersist
    \/ StartOptimization
    \/ SettleOptimization
    \/ OptimizationFails
    \/ CallDeploy
    \/ ExecuteGeoDeploy
    \/ DeployReturns
    \/ TelemetryReturns

Spec == Init /\ [][Next]_vars

\* the steps that are bound to happen once they can: the event loop resumes
\* every continuation of the run, and the persistence, keyword, deployment and
\* telemetry stubs return when their timers fire; only the generation provider,
\* an external service, may leave a task pending for ever
CoreStep ==
    \/ ValidateInput
    \/ HaltPipeline
    \/ GenerateCreatives
    \/ AggregateAndPersist
    \/ StartOptimization
    \/ SettleOptimization
    \/ OptimizationFails
    \/ CallDeploy
    \/ ExecuteGeoDeploy
    \/ DeployReturns
    \/ TelemetryReturns

\* a caller invokes runPipeline with a brief of LiveBriefs
InitLive ==
    /\ entry = "runPipeline"
    /\ brief \in LiveBriefs
    /\ pc = "validateInput"
    /\ deployArgs = Undefined
    /\ InitLocals

SpecLive == InitLive /\ [][Next]_vars /\ WF_vars(CoreStep)

\* a caller invokes validateInput directly, on any brief of Briefs
InitValidate ==
    /\ entry = "validateInput"
    /\ brief \in Briefs
    /\ pc = "validateInput"
    /\ deployArgs = Undefined
    /\ project = Undefined
    /\ genTasks = <<>>
    /\ output = Undefined
    /\ seoTasks = <<>>
    /\ deployment = Undefined
    /\ descriptor = Undefined
    /\ error = ""
    /\ calls = NoCalls
    /\ arg = Undefined
    /\ ret = Undefined
    /\ settleOrder = <<>>
    /\ clock = 1
    /\ issued = {}

NextValidate == ValidateInput

SpecValidate == InitValidate /\ [][NextValidate]_vars

\* a caller invokes generateCreatives directly, with a persistence sink that may fail
InitGenerate ==
    /\ entry = "generateCreatives"
    /\ project \in DirectProjects
    /\ pc = "validated"
    /\ brief = Undefined
    /\ deployArgs = Undefined
    /\ genTasks = <<>>
    /\ output = Undefined
    /\ seoTasks = <<>>
    /\ deployment = Undefined
    /\ descriptor = Undefined
    /\ error = ""
    /\ calls = NoCalls
    /\ arg = Undefined
    /\ ret = Undefined
    /\ settleOrder = <<>>
    /\ clock = 1
    /\ issued = {}

\* the persistence call settles: generateCreatives returns its output, or its
\* catch block throws the sink's error again
PersistenceSettles ==
    /\ entry = "generateCreatives"
    /\ pc = "persisting"
    /\ \E ok \in BOOLEAN :
          IF ok THEN ret' = Returned(output) /\ pc' = "done" /\ UNCHANGED error
          ELSE Fail(sinkError) /\ UNCHANGED ret
    /\ UNCHANGED <<entry, brief, project, genTasks, output, seoTasks, deployArgs,
                   deployment, descriptor, calls, arg, settleOrder,
                   clock, issued>>

NextGenerate ==
    \/ GenerateCreatives
    \/ SettleGeneration
    \/ AggregateAndPersist
    \/ PersistenceSettles

SpecGenerate == InitGenerate /\ [][NextGenerate]_vars

\* variant of generateVariant whose body carries a notice when the project's
\* policy requires consent
generateVariantWithNotice(p, locale) ==
    LET variant == stubAIGeneration(p.payload.coreMessage, locale)
    IN  [variant EXCEPT !.bodyCopy =
            IF p.compliance.requiresGDPR THEN @ \o " Your data stays in the EU." ELSE @]

\* the body of one generation task of generateCreatives for a project
generateVariant(p, locale) == stubAIGeneration(p.payload.coreMessage, locale)

\* creativeOutput.variants.map(optimizeSEO): a variant the guard rejects is a
\* rejected promise at once, the others wait for the keyword lookup
seoPromises(variants) ==
    [i \in 1..Len(variants) |->
        IF seoRejects(variants[i]) THEN Rejected(seoError(variants[i])) ELSE Pending]

\* the validated projects of the paired runs
TwinProjects ==
    {[kind       |-> "project",
      projectId  |-> "abc",
      status     |-> "VALIDATED",
      payload    |-> [campaignId    |-> "abc",
                      brandName     |-> "Bb",
                      coreMessage   |-> "GDPR rules",
                      targetLocales |-> Array(l),
                      assets        |-> Assets("https://x.com/l.png", "https://x.com/k.csv")],
      compliance |-> computeGeoCompliance(l)] :
        l \in SeqsUpTo({"en-US", "it-IT", ""}, MaxLocales)}

\* the state of the second run of a pair
TwinRun(p, tasks, out, seo) ==
    [kind |-> "run", project |-> p, genTasks |-> tasks, output |-> out, seoTasks |-> seo]

\* two runs of the generation and optimization stages of runPipeline side by
\* side: the second, held in arg, is given the project of the first with another
\* policy, and its provider and keyword calls end as those of the first do
InitTwin ==
    /\ entry = "pairedRuns"
    /\ project \in TwinProjects
    /\ \E policy \in Policies \ {project.compliance} :
          arg = TwinRun([project EXCEPT !.compliance = policy], <<>>, Undefined, <<>>)
    /\ pc = "validated"
    /\ brief = Undefined
    /\ deployArgs = Undefined
    /\ genTasks = <<>>
    /\ output = Undefined
    /\ seoTasks = <<>>
    /\ deployment = Undefined
    /\ descriptor = Undefined
    /\ error = ""
    /\ calls = NoCalls
    /\ ret = Undefined
    /\ settleOrder = <<>>
    /\ clock = 1
    /\ issued = {}

\* both runs pass the gate of generateCreatives and start one task per locale
TwinGenerateCreatives ==
    /\ entry = "pairedRuns"
    /\ pc = "validated"
    /\ ~generationRejects(project) /\ ~generationRejects(arg.project)
    /\ genTasks' = [i \in 1..Len(project.payload.targetLocales.items) |-> Pending]
    /\ arg' = [arg EXCEPT !.genTasks =
                  [i \in 1..Len(arg.project.payload.targetLocales.items) |-> Pending]]
    /\ calls' = [calls EXCEPT !.generation =
                    @ + Len(project.payload.targetLocales.items)
                      + Len(arg.project.payload.targetLocales.items)]
    /\ pc' = "generating"
    /\ UNCHANGED <<entry, brief, project, output, seoTasks, deployArgs,
                   deployment, descriptor, error, ret, settleOrder, clock, issued>>

\* the task of one locale settles in both runs, with the same outcome: the
\* provider returns to each run the variant of its project, or fails in both
TwinSettleGeneration ==
    /\ entry = "pairedRuns"
    /\ pc = "generating"
    /\ \E i \in 1..Len(genTasks) :
          /\ genTasks[i].status = "pending"
          /\ \E ok \in BOOLEAN :
                LET locale == project.payload.targetLocales.items[i]
                    other  == arg.project.payload.targetLocales.items[i]
                IN  IF ok
                    THEN /\ genTasks' = [genTasks EXCEPT ![i] =
                                            Fulfilled(generateVariant(project, locale))]
                         /\ arg' = [arg EXCEPT !.genTasks[i] =
                                            Fulfilled(generateVariant(arg.project, other))]
                    ELSE /\ genTasks' = [genTasks EXCEPT ![i] =
                                            Rejected(providerError(locale))]
                         /\ arg' = [arg EXCEPT !.genTasks[i] =
                                            Rejected(providerError(other))]
    /\ UNCHANGED <<entry, brief, pc, project, output, seoTasks, deployArgs,
                   deployment, descriptor, error, calls, ret, settleOrder,
                   clock, issued>>

\* both runs resume from the await of generateCreatives and aggregate
TwinAggregateAndPersist ==
    /\ entry = "pairedRuns"
    /\ pc = "generating"
    /\ awaitGeneration(genTasks) = "resolved"
    /\ awaitGeneration(arg.genTasks) = "resolved"
    /\ output' = aggregate(project.projectId, genTasks)
    /\ arg' = [arg EXCEPT !.output = aggregate(arg.project.projectId, arg.genTasks)]
    /\ calls' = [calls EXCEPT !.persistence = @ + 2]
    /\ pc' = "persisting"
    /\ UNCHANGED <<entry, brief, project, genTasks, seoTasks, deployArgs,
                   deployment, descriptor, error, ret, settleOrder, clock, issued>>

\* both runs start optimizeSEO on every variant of their outcome
TwinStartOptimization ==
    /\ entry = "pairedRuns"
    /\ pc = "persisting"
    /\ seoTasks' = seoPromises(output.variants)
    /\ arg' = [arg EXCEPT !.seoTasks = seoPromises(arg.output.variants)]
    /\ pc' = "optimizing"
    /\ UNCHANGED <<entry, brief, project, genTasks, output, deployArgs,
                   deployment, descriptor, error, calls, ret, settleOrder,
                   clock, issued>>

\* the keyword lookup of one variant returns in both runs
TwinSettleOptimization ==
    /\ entry = "pairedRuns"
    /\ pc = "optimizing"
    /\ \E i \in 1..Len(seoTasks) :
          /\ seoTasks[i].status = "pending"
          /\ i \in 1..Len(arg.seoTasks)
          /\ arg.seoTasks[i].status = "pending"
          /\ seoTasks' = [seoTasks EXCEPT ![i] = Fulfilled(optimizeSEO(output.variants[i]))]
          /\ arg' = [arg EXCEPT !.seoTasks[i] =
                                  Fulfilled(optimizeSEO(arg.output.variants[i]))]
    /\ UNCHANGED <<entry, brief, pc, project, genTasks, output, deployArgs,
                   deployment, descriptor, error, calls, ret, settleOrder,
                   clock, issued>>

NextTwin ==
    \/ TwinGenerateCreatives
    \/ TwinSettleGeneration
    \/ TwinAggregateAndPersist
    \/ TwinStartOptimization
    \/ TwinSettleOptimization

SpecTwin == InitTwin /\ [][NextTwin]_vars

\* a caller invokes executeGeoDeploy while other calls of it are under way:
\* concurrent runs of the pipeline, or other direct callers
InitDeployments ==
    /\ entry = "executeGeoDeploy"
    /\ deployArgs \in DeployCalls
    /\ pc = "deploy"
    /\ brief = Undefined
    /\ project = Undefined
    /\ genTasks = <<>>
    /\ output = Undefined
    /\ seoTasks = <<>>
    /\ deployment = Undefined
    /\ descriptor = Undefined
    /\ error = ""
    /\ calls = NoCalls
    /\ arg = Undefined
    /\ ret = Undefined
    /\ settleOrder = <<>>
    /\ clock = 1
    /\ issued = {}

\* the deployment provider returns an identifier to another call of
\* executeGeoDeploy, for a region that call selected
OtherDeployment ==
    /\ Cardinality(issued) < MaxOtherRuns
    /\ \E region \in {"fra1", "iad1"}, consent \in BOOLEAN, now \in Timestamps :
          /\ now >= clock
          /\ clock' = now
          /\ issued' = issued \cup
                {stubVercelDeploy([geoBlocking |-> FALSE, consentRequired |-> consent],
                                  region, now)}
    /\ UNCHANGED <<entry, brief, pc, project, genTasks, output, seoTasks, deployArgs,
                   deployment, descriptor, error, calls, arg, ret, settleOrder>>

NextDeployments ==
    \/ ExecuteGeoDeploy
    \/ DeployReturns
    \/ TelemetryReturns
    \/ OtherDeployment

SpecDeployments == InitDeployments /\ [][NextDeployments]_vars

\* a caller invokes truncate directly
InitTruncate ==
    /\ entry = "truncate"
    /\ arg \in TruncateCalls
    /\ pc = "truncate"
    /\ brief = Undefined
    /\ deployArgs = Undefined
    /\ project = Undefined
    /\ genTasks = <<>>
    /\ output = Undefined
    /\ seoTasks = <<>>
    /\ deployment = Undefined
    /\ descriptor = Undefined
    /\ error = ""
    /\ calls = NoCalls
    /\ ret = Undefined
    /\ settleOrder = <<>>
    /\ clock = 1
    /\ issued = {}

Truncate ==
    /\ pc = "truncate"
    /\ ret' = Returned(truncate(arg.text, arg.maxLength))
    /\ pc' = "done"
    /\ UNCHANGED <<entry, brief, project, genTasks, output, seoTasks, deployArgs,
                   deployment, descriptor, error, calls, arg, settleOrder,
                   clock, issued>>

NextTruncate == Truncate

SpecTruncate == InitTruncate /\ [][NextTruncate]_vars

\* a caller invokes optimizeSEO directly, on any variant of SeoCalls
InitOptimize ==
    /\ entry = "optimizeSEO"
    /\ arg \in SeoCalls
    /\ pc = "optimizeSEO"
    /\ brief = Undefined
    /\ deployArgs = Undefined
    /\ project = Undefined
    /\ genTasks = <<>>
    /\ output = Undefined
    /\ seoTasks = <<>>
    /\ deployment = Undefined
    /\ descriptor = Undefined
    /\ error = ""
    /\ calls = NoCalls
    /\ ret = Undefined
    /\ settleOrder = <<>>
    /\ clock = 1
    /\ issued = {}

\* optimizeSEO up to its await: the guard, then the keyword lookup
OptimizeSEO ==
    /\ pc = "optimizeSEO"
    /\ IF seoRejects(arg)
       THEN /\ Fail(seoError(arg))
            /\ UNCHANGED calls
       ELSE /\ calls' = [calls EXCEPT !.keywords = @ + 1]
            /\ pc' = "keywords"
            /\ UNCHANGED error
    /\ UNCHANGED <<entry, brief, project, genTasks, output, seoTasks, deployArgs,
                   deployment, descriptor, arg, ret, settleOrder,
                   clock, issued>>

\* the keyword lookup returns and optimizeSEO returns the optimized variant
KeywordsReturn ==
    /\ pc = "keywords"
    /\ ret' = Returned(optimizeSEO(arg))
    /\ pc' = "done"
    /\ UNCHANGED <<entry, brief, project, genTasks, output, seoTasks, deployArgs,
                   deployment, descriptor, error, calls, arg, settleOrder,
                   clock, issued>>

NextOptimize == OptimizeSEO \/ KeywordsReturn

SpecOptimize == InitOptimize /\ [][NextOptimize]_vars

----------------------------------------------------------------------------
(* Vocabulary of the properties *)

\* p is the part of locale before its region separator
IsLanguagePrefix(p, locale) ==
    /\ Len(p) <= Len(locale)
    /\ p = SubSeq(locale, 1, Len(p))
    /\ ~HasChar(p, "-")
    /\ Len(p) < Len(locale) => CharAt(locale, Len(p) + 1) = "-"

EqualIgnoringCase(a, b) ==
    /\ Len(a) = Len(b)
    /\ \A k \in 1..Len(a) : toLowerChar(CharAt(a, k)) = toLowerChar(CharAt(b, k))

\* some locale of the list has a language prefix in the set of languages
HasPrefixIn(locales, languages) ==
    \E i \in 1..Len(locales) : \E n \in 0..Len(locales[i]) : \E e \in languages :
        /\ IsLanguagePrefix(SubSeq(locales[i], 1, n), locales[i])
        /\ EqualIgnoringCase(SubSeq(locales[i], 1, n), e)

\* the length of s without its leading and trailing white space
TrimmedLen(s) ==
    LET inked == {i \in 1..Len(s) : ~IsWhiteSpace(CharAt(s, i))}
    IN  IF inked = {} THEN 0
        ELSE (CHOOSE hi \in inked : \A i \in inked : i <= hi)
             - (CHOOSE lo \in inked : \A i \in inked : lo <= i) + 1

\* the locales of a list that executeGeoDeploy counts as EU, and the others
EuVotes(locs) == Cardinality({i \in 1..Len(locs) : isEuLocale(locs[i])})
OtherVotes(locs) == Cardinality({i \in 1..Len(locs) : ~isEuLocale(locs[i])})

DeployError == "[GeoDeploymentHub] Invariant Violation: No variants provided for deployment."

\* the locales of the fixed reference set of the hreflang mapping
ReferenceLocales == {"en-US", "it-IT", "fr-FR", "es-ES", "de-DE"}

\* the URL pattern of the pages of a campaign
PageUrl(locale) == "https://microsite-factory.com/" \o locale \o "/campaign-mvc"

\* the variant has no locale or an empty one, or no headline or an empty one
LacksLocaleOrHeadline(variant) ==
    \/ "locale" \notin DOMAIN variant
    \/ "heroTitle" \notin DOMAIN variant
    \/ Len(variant.locale) = 0
    \/ Len(variant.heroTitle) = 0

SeoErrorPrefix == "[SeoSemanticAgent] Invariant Violation"

StartsWith(s, prefix) ==
    Len(prefix) <= Len(s) /\ SubSeq(s, 1, Len(prefix)) = prefix

RejectedOptimizations == {i \in 1..Len(seoTasks) : seoTasks[i].status = "rejected"}
FulfilledOptimizations == {i \in 1..Len(seoTasks) : seoTasks[i].status = "fulfilled"}

\* the elements of the list at the positions of keep among 1..n, in list order
RECURSIVE PickInOrder(_, _, _)
PickInOrder(list, keep, n) ==
    IF n = 0 THEN <<>>
    ELSE PickInOrder(list, keep, n - 1) \o (IF n \in keep THEN <<list[n]>> ELSE <<>>)

Distinct(list) == \A i, j \in 1..Len(list) : list[i] = list[j] => i = j

Range(list) == {list[i] : i \in 1..Len(list)}

GateErrorPrefix == "[CreativeAIEngine] Invariant Violation"

PendingTasks == {i \in 1..Len(genTasks) : genTasks[i].status = "pending"}

PendingOptimizations == {i \in 1..Len(seoTasks) : seoTasks[i].status = "pending"}

\* the stages of a run in the order of runPipeline
StageOf(label) ==
    CASE label \in {"validateInput", "validated"}        -> 1
      [] label \in {"generating", "persisting"}          -> 2
      [] label = "optimizing"                            -> 3
      [] label \in {"deploy", "deploying", "telemetry"}  -> 4
      [] label \in {"done", "failed"}                    -> 5

TelemetryBase == "https://analytics.microsite-factory.com/v1/events/"

\* sub occurs in s
Contains(s, sub) ==
    \E k \in 1..(Len(s) + 1) :
        k + Len(sub) - 1 <= Len(s) /\ SubSeq(s, k, k + Len(sub) - 1) = sub

\* the asset references of the inputs that are absolute URLs
AbsoluteUrls == {"https://x.com/l.png", "https://x.com/k.csv"}

Validated == project.kind = "project"

RejectedTasks == {i \in 1..Len(genTasks) : genTasks[i].status = "rejected"}
FulfilledTasks == {i \in 1..Len(genTasks) : genTasks[i].status = "fulfilled"}

FailureMessages(o) == IF IsMissing(o.errors) THEN <<>> ELSE o.errors.items

Ended == pc \in {"done", "failed"}

HaltError == "Pipeline Halted: Input validation failed."

----------------------------------------------------------------------------
(* Properties *)

\* C1: the policy validateInput computes from a locale list has requiresGDPR,
\* cookieConsentActive and dataResidency = EU exactly when some locale of the
\* list has a language prefix, compared without regard to case, in the
\* validator's EU language set; otherwise both flags are false and the
\* residency is GLOBAL.
C1_PolicyIffEuPrefix ==
    Validated =>
        IF HasPrefixIn(brief.targetLocales.items, euLocales)
        THEN project.compliance = [requiresGDPR |-> TRUE, cookieConsentActive |-> TRUE,
                                   dataResidency |-> "EU"]
        ELSE project.compliance = [requiresGDPR |-> FALSE, cookieConsentActive |-> FALSE,
                                   dataResidency |-> "GLOBAL"]

\* C1 witness: a policy of EU residency owed to an upper-case locale without a
\* region, which is not the first of the list
C1_Witness ==
    /\ Validated
    /\ brief.targetLocales.items = <<"en-US", "DE">>
    /\ project.compliance.dataResidency = "EU"

\* C2 as stated: the status is FAILED exactly when the campaign identifier is
\* shorter than 3, the brand name is empty, the core message is shorter than
\* 10, there is no target locale, or an asset URL is not an absolute URL.
C2_StatusIffRawCheckFails ==
    Validated =>
        (project.status = "FAILED" <=>
            \/ Len(brief.campaignId) < 3
            \/ Len(brief.brandName) = 0
            \/ Len(brief.coreMessage) < 10
            \/ Len(brief.targetLocales.items) = 0
            \/ brief.assets.logoUrl \notin AbsoluteUrls
            \/ brief.assets.keywordsCsvUrl \notin AbsoluteUrls)

\* C2 amended: the status validateInput returns is FAILED exactly when one of
\* the checks fails, the lengths of the campaign identifier, the brand name
\* and the core message being taken without leading and trailing white space;
\* otherwise it is VALIDATED.
C2_StatusIffTrimmedCheckFails ==
    Validated =>
        /\ project.status \in {"FAILED", "VALIDATED"}
        /\ project.status = "FAILED" <=>
              \/ TrimmedLen(brief.campaignId) < 3
              \/ TrimmedLen(brief.brandName) = 0
              \/ TrimmedLen(brief.coreMessage) < 10
              \/ Len(brief.targetLocales.items) = 0
              \/ brief.assets.logoUrl \notin AbsoluteUrls
              \/ brief.assets.keywordsCsvUrl \notin AbsoluteUrls

\* C2 witness: a brief that fails on its brand name alone, a name of white space
C2_Witness ==
    /\ Validated
    /\ project.status = "FAILED"
    /\ brief.brandName = "  "
    /\ brief.campaignId = "abc"
    /\ brief.coreMessage = "GDPR rules"
    /\ Len(brief.targetLocales.items) > 0
    /\ brief.assets.logoUrl \in AbsoluteUrls
    /\ brief.assets.keywordsCsvUrl \in AbsoluteUrls

\* C3 as stated: validateInput never fails with an exception; once it has run
\* on a brief, also one without a locale list or without asset references, it
\* has returned a project.
C3_ValidateNeverThrows ==
    pc # "validateInput" => (Validated /\ error = "")

\* C4: when validation returns FAILED the run ends with the pipeline-halt error
\* and makes no generation, persistence, optimization, deployment or telemetry
\* call.
C4_FailedHaltsWithoutCalls ==
    (Validated /\ project.status = "FAILED") =>
        /\ calls = NoCalls
        /\ genTasks = <<>> /\ seoTasks = <<>>
        /\ IsMissing(output) /\ IsMissing(deployArgs) /\ IsMissing(descriptor)
        /\ pc \in {"validated", "failed"}
        /\ pc = "failed" => error = HaltError
        /\ pc = "validated" => ENABLED HaltPipeline

\* C4 witness: a run halted on a FAILED project that names target locales
C4_Witness ==
    /\ Validated
    /\ project.status = "FAILED"
    /\ Len(brief.targetLocales.items) = MaxLocales
    /\ pc = "failed"
    /\ error = HaltError

\* C5: for N target locales of which K generation tasks failed, the outcome of
\* generateCreatives has N-K variants and K failure messages.
C5_VariantsPlusFailures ==
    output.kind = "output" =>
        /\ Len(output.variants) + Cardinality(RejectedTasks) = Len(brief.targetLocales.items)
        /\ Len(FailureMessages(output)) = Cardinality(RejectedTasks)
        /\ Len(output.variants) + Len(FailureMessages(output))
              = Len(brief.targetLocales.items)

\* C5 witness: an outcome of one variant and two failure messages
C5_Witness ==
    /\ output.kind = "output"
    /\ Len(output.variants) = 1
    /\ Len(FailureMessages(output)) = 2

\* C6: failing generation tasks never make generateCreatives fail: once every
\* task has settled it returns an outcome, with no variant when every task
\* failed, and no run ends with a generation task's error.
C6_TaskFailureNeverRaised ==
    RejectedTasks # {} =>
        /\ error \notin {genTasks[i].reason : i \in RejectedTasks}
        /\ pc = "generating" => (ENABLED SettleGeneration \/ ENABLED AggregateAndPersist)
        /\ pc # "generating" => output.kind = "output"
        /\ (output.kind = "output" /\ FulfilledTasks = {}) => output.variants = <<>>

\* C6 witness: every task of a brief of several locales failed and the outcome
\* was returned with no variant
C6_Witness ==
    /\ Len(genTasks) > 1
    /\ Cardinality(RejectedTasks) = Len(genTasks)
    /\ pc = "optimizing"
    /\ output.kind = "output"
    /\ output.variants = <<>>

\* C7 as stated: a run on a validated brief in which some generation task
\* succeeded ends with a descriptor whose isLive is true.
C7_OneSuccessDeploys ==
    (Validated /\ project.status = "VALIDATED" /\ FulfilledTasks # {} /\ Ended) =>
        /\ pc = "done"
        /\ descriptor.kind = "descriptor"
        /\ descriptor.isLive

\* C7 amended: a run on a validated brief in which some generation task
\* succeeded, and in which no generated variant has an empty locale or an empty
\* headline, can always go on until it ends, and ends with a descriptor whose
\* isLive is true, whatever other tasks failed.
C7_OneAcceptedSuccessDeploys ==
    ( /\ Validated
      /\ project.status = "VALIDATED"
      /\ FulfilledTasks # {}
      /\ \A i \in FulfilledTasks :
            genTasks[i].value.locale # "" /\ genTasks[i].value.heroTitle # "" ) =>
        /\ pc # "failed"
        /\ pc # "done" => ENABLED Next
        /\ pc = "done" => (descriptor.kind = "descriptor" /\ descriptor.isLive)

\* C7 witness: a run that deployed one variant after its two other tasks failed
C7_Witness ==
    /\ entry = "runPipeline"
    /\ pc = "done"
    /\ Cardinality(FulfilledTasks) = 1
    /\ Cardinality(RejectedTasks) = 2
    /\ descriptor.isLive

C9_PolicyThreaded ==
    (entry = "runPipeline" /\ deployArgs.kind = "args") =>
        /\ deployArgs.compliance = validateInput(brief).value.compliance
        /\ deployArgs.compliance.requiresGDPR
              = HasPrefixIn(brief.targetLocales.items, euLocales)
        /\ descriptor.kind = "descriptor" =>
              descriptor.middlewareRules.consentRequired
                 = validateInput(brief).value.compliance.requiresGDPR

\* C9 witness: the task of the only EU locale failed, the non-EU variant is
\* deployed, and consent is required
C9_Witness ==
    /\ entry = "runPipeline"
    /\ pc = "done"
    /\ brief.targetLocales.items = <<"it-IT", "en-US">>
    /\ localesOf(deployArgs.seoVariants.items) = <<"en-US">>
    /\ descriptor.middlewareRules.consentRequired

\* C10: when the locales executeGeoDeploy classifies as EU outnumber the others
\* the region is fra1, and when the others outnumber the EU ones it is iad1.
C10_StrictMajorityRegion ==
    deployment.kind = "deployment" =>
        LET locs == localesOf(deployArgs.seoVariants.items)
            eu   == Cardinality({i \in 1..Len(locs) : isEuLocale(locs[i])})
            us   == Cardinality({i \in 1..Len(locs) : ~isEuLocale(locs[i])})
        IN  /\ eu > us => deployment.targetRegion = "fra1"
            /\ us > eu => deployment.targetRegion = "iad1"
            /\ descriptor.kind = "descriptor" =>
                  descriptor.edgeRegion = deployment.targetRegion

\* C10 witness: two EU variants and one non-EU variant deployed to fra1 by a run
\* of the pipeline
C10_Witness ==
    /\ entry = "runPipeline"
    /\ descriptor.kind = "descriptor"
    /\ brief.targetLocales.items = <<"it-IT", "en-US", "it-IT">>
    /\ localesOf(deployArgs.seoVariants.items) = brief.targetLocales.items
    /\ descriptor.edgeRegion = "fra1"

\* C11 as stated: when as many variant locales are classified EU as are not,
\* for example one of each, the region is the global fallback, neither fra1
\* nor iad1.
C11_TieIsGlobal ==
    deployment.kind = "deployment" =>
        LET locs == localesOf(deployArgs.seoVariants.items)
        IN  EuVotes(locs) = OtherVotes(locs) => deployment.targetRegion = "global"

\* C12: executeGeoDeploy called with a missing or an empty variant list fails
\* with its invariant error before any provisioning: the deployment provider
\* and the telemetry provisioner are not called and no descriptor is returned.
C12_NoVariantsNoProvisioning ==
    ( /\ deployArgs.kind = "args"
      /\ (IsMissing(deployArgs.seoVariants) \/ deployArgs.seoVariants.items = <<>>) ) =>
        /\ calls.deployment = 0 /\ calls.telemetry = 0
        /\ IsMissing(deployment) /\ IsMissing(descriptor)
        /\ pc \in {"deploy", "failed"}
        /\ pc = "deploy" => ENABLED ExecuteGeoDeploy
        /\ pc = "failed" => error = DeployError

\* C12 witness: a direct call without a variant list has failed
C12_Witness ==
    /\ entry = "executeGeoDeploy"
    /\ IsMissing(deployArgs.seoVariants)
    /\ pc = "failed"
    /\ error = DeployError
    /\ calls = NoCalls

\* C12 second case: a direct call with an empty variant list has failed
C12_WitnessEmpty ==
    /\ entry = "executeGeoDeploy"
    /\ deployArgs.seoVariants = Array(<<>>)
    /\ pc = "failed"

\* C13: truncate at the limit of 60 returns, for a text longer than 60
\* characters, exactly 60 characters of which the first 57 are the text's first
\* 57 and the last three are the ellipsis marker; a text of at most 60 characters
\* is returned unchanged.
C13_TruncateAtSixty ==
    (entry = "truncate" /\ pc = "done" /\ arg.maxLength = 60) =>
        /\ ret.kind = "return"
        /\ IF Len(arg.text) > 60
           THEN /\ Len(ret.value) = 60
                /\ SubSeq(ret.value, 58, 60) = "..."
                /\ SubSeq(ret.value, 1, 57) = SubSeq(arg.text, 1, 57)
           ELSE ret.value = arg.text

\* C13 witness: a text of 61 characters was cut to 60
C13_Witness ==
    /\ entry = "truncate"
    /\ pc = "done"
    /\ Len(arg.text) = 61
    /\ Len(ret.value) = 60
    /\ ret.value # arg.text

\* C14: the hreflang mapping of every variant optimizeSEO returns has an entry
\* for each locale of the reference set, mapped through the URL pattern, and no
\* other entry, whatever the variant's own locale.
C14_HreflangIsTheReferenceSet ==
    (entry = "optimizeSEO" /\ ret.kind = "return") =>
        /\ DOMAIN ret.value.seo.hreflang = ReferenceLocales
        /\ \A loc \in ReferenceLocales : ret.value.seo.hreflang[loc] = PageUrl(loc)

\* C14 witness: a variant of a locale outside the reference set was optimized
C14_Witness ==
    /\ entry = "optimizeSEO"
    /\ ret.kind = "return"
    /\ arg.locale = "fi-FI"
    /\ ret.value.locale = "fi-FI"
    /\ "fi-FI" \notin DOMAIN ret.value.seo.hreflang

\* C15: optimizeSEO fails with its invariant error, before the keyword lookup
\* and without returning a variant, when the locale or the headline of the
\* variant is missing or empty; for every other variant it goes on to return
\* the optimized variant.
C15_RejectsIffLocaleOrHeadlineEmpty ==
    (entry = "optimizeSEO" /\ pc # "optimizeSEO") =>
        IF LacksLocaleOrHeadline(arg)
        THEN /\ pc = "failed"
             /\ StartsWith(error, SeoErrorPrefix)
             /\ ret = Undefined
             /\ calls.keywords = 0
        ELSE /\ pc \in {"keywords", "done"}
             /\ error = ""
             /\ pc = "keywords" => (ret = Undefined /\ ENABLED KeywordsReturn)
             /\ pc = "done" =>
                   /\ ret.kind = "return"
                   /\ ret.value.locale = arg.locale
                   /\ ret.value.heroTitle = arg.heroTitle

\* C15 witness: a variant with a locale and no headline was rejected
C15_Witness ==
    /\ entry = "optimizeSEO"
    /\ pc = "failed"
    /\ "heroTitle" \notin DOMAIN arg
    /\ "locale" \in DOMAIN arg
    /\ arg.locale = "en-US"
    /\ StartsWith(error, SeoErrorPrefix)

\* C15 second case: a variant of an unknown locale and an empty body was accepted
C15_WitnessAccepted ==
    /\ entry = "optimizeSEO"
    /\ pc = "done"
    /\ arg.locale = "xx"
    /\ arg.bodyCopy = ""
    /\ ret.kind = "return"

\* C16: in a run of runPipeline, once the optimization of one generated variant
\* has failed the run can only fail, with the error of a failed optimization;
\* executeGeoDeploy is never called, also when every other variant was
\* optimized.
C16_OptimizationAllOrNothing ==
    (entry = "runPipeline" /\ RejectedOptimizations # {}) =>
        /\ pc \in {"optimizing", "failed"}
        /\ IsMissing(deployArgs) /\ IsMissing(deployment) /\ IsMissing(descriptor)
        /\ calls.deployment = 0 /\ calls.telemetry = 0
        /\ pc = "optimizing" => (ENABLED OptimizationFails /\ ~ENABLED CallDeploy)
        /\ pc = "failed" => error \in {seoTasks[i].reason : i \in RejectedOptimizations}

\* C16 witness: the run failed on one variant and the two others were optimized
C16_Witness ==
    /\ entry = "runPipeline"
    /\ pc = "failed"
    /\ Cardinality(RejectedOptimizations) = 1
    /\ Cardinality(FulfilledOptimizations) = 2
    /\ StartsWith(error, SeoErrorPrefix)
    /\ IsMissing(deployArgs)

\* C17: generateCreatives called with a project whose status is not VALIDATED
\* fails with its invariant error before anything is launched: no generation
\* task is started, the persistence sink is not called and no outcome, partial
\* or not, is built or returned.
C17_GateBeforeAnyTask ==
    (entry = "generateCreatives" /\ project.status # "VALIDATED") =>
        /\ genTasks = <<>> /\ settleOrder = <<>>
        /\ calls = NoCalls
        /\ IsMissing(output) /\ IsMissing(ret)
        /\ pc \in {"validated", "failed"}
        /\ pc = "validated" => ENABLED GenerateCreatives
        /\ pc = "failed" => StartsWith(error, GateErrorPrefix)

\* C17 witness: a direct call with a FAILED project of three locales has failed
C17_Witness ==
    /\ entry = "generateCreatives"
    /\ project.status = "FAILED"
    /\ Len(project.payload.targetLocales.items) = MaxLocales
    /\ pc = "failed"
    /\ StartsWith(error, GateErrorPrefix)

\* C18: whatever the order in which the generation tasks complete, the variants
\* of the outcome are those of the tasks that succeeded, in the order of their
\* locales in the target-locale list of the brief.
C18_VariantsInSubmissionOrder ==
    (entry = "generateCreatives" /\ output.kind = "output") =>
        /\ Range(settleOrder) = 1..Len(project.payload.targetLocales.items)
        /\ localesOf(output.variants)
              = PickInOrder(project.payload.targetLocales.items, FulfilledTasks,
                            Len(project.payload.targetLocales.items))
        /\ ret.kind = "return" => ret.value = output
        /\ output.variants
              = PickInOrder([i \in 1..Len(genTasks) |->
                               IF i \in FulfilledTasks THEN genTasks[i].value
                               ELSE Undefined],
                            FulfilledTasks, Len(genTasks))

\* C18 witness: three tasks completed last first and the outcome lists their
\* variants first first
C18_Witness ==
    /\ entry = "generateCreatives"
    /\ ret.kind = "return"
    /\ settleOrder = <<3, 2, 1>>
    /\ project.payload.targetLocales.items = <<"en-US", "it-IT", "de-DE">>
    /\ localesOf(ret.value.variants) = <<"en-US", "it-IT", "de-DE">>

\* C19 as stated: a failure of the persistence sink does not fail the
\* generation stage: a call of generateCreatives that has aggregated its
\* outcome ends by returning that outcome.
C19_SinkFailureTolerated ==
    (entry = "generateCreatives" /\ output.kind = "output" /\ Ended) =>
        /\ pc = "done"
        /\ ret = Returned(output)

\* C20: the list runPipeline hands to executeGeoDeploy has one optimized
\* variant for each generation task that succeeded, N-K of them for N target
\* locales and K failed tasks, in the order of the generation outcome, each the
\* optimized form of the generated variant at its place, and none for a task
\* that failed: when the target locales are distinct, no variant has the locale
\* of a failed task.
C20_DeployedAreTheGenerated ==
    (entry = "runPipeline" /\ deployArgs.kind = "args") =>
        LET deployed == deployArgs.seoVariants.items
            targets  == brief.targetLocales.items
        IN  /\ Len(deployed) = Cardinality(FulfilledTasks)
            /\ Len(deployed) = Len(targets) - Cardinality(RejectedTasks)
            /\ Len(deployed) = Len(output.variants)
            /\ localesOf(deployed) = PickInOrder(targets, FulfilledTasks, Len(targets))
            /\ \A i \in 1..Len(deployed) :
                  /\ deployed[i].locale = output.variants[i].locale
                  /\ deployed[i].heroTitle = output.variants[i].heroTitle
                  /\ deployed[i].bodyCopy = output.variants[i].bodyCopy
                  /\ deployed[i].seo.ogTags.ogLocale = output.variants[i].locale
            /\ Distinct(targets) =>
                  \A j \in RejectedTasks : targets[j] \notin Range(localesOf(deployed))

\* C20 witness: of three target locales the second failed generation and the
\* run deployed the variants of the first and the third
C20_Witness ==
    /\ entry = "runPipeline"
    /\ pc = "done"
    /\ brief.targetLocales.items = <<"en-US", "it-IT", "fi-FI">>
    /\ RejectedTasks = {2}
    /\ localesOf(deployArgs.seoVariants.items) = <<"en-US", "fi-FI">>

\* C21: generateCreatives neither aggregates, persists nor returns while a
\* generation task it launched is still running: as long as one is pending it
\* stays at its await and cannot resume, and once an outcome exists every task
\* has succeeded or failed, also when a task failed before the others settled.
C21_GenerationBarrier ==
    entry = "generateCreatives" =>
        /\ PendingTasks # {} =>
              /\ pc = "generating"
              /\ IsMissing(output) /\ IsMissing(ret)
              /\ calls.persistence = 0
              /\ ~ENABLED AggregateAndPersist
        /\ (output.kind = "output" \/ ret.kind = "return" \/ calls.persistence > 0) =>
              /\ PendingTasks = {}
              /\ FulfilledTasks \cup RejectedTasks = 1..Len(genTasks)
              /\ Len(settleOrder) = Len(genTasks)

\* C21 witness: the first task to settle failed, the two others settled after
\* it, and the call returned
C21_Witness ==
    /\ entry = "generateCreatives"
    /\ ret.kind = "return"
    /\ Len(genTasks) = 3
    /\ settleOrder[1] \in RejectedTasks
    /\ Cardinality(FulfilledTasks) = 2

\* C22 as stated: when the optimization stage aborts on a failed variant every
\* optimization task of the run has reached a terminal state: the run does not
\* report failure while a sibling optimization task is still running.
C22_OptimizerWaitsForAll ==
    (entry = "runPipeline" /\ pc = "failed" /\ RejectedOptimizations # {}) =>
        PendingOptimizations = {}

\* C23: in a run of runPipeline validation has returned a VALIDATED project
\* before a generation task starts, every generation task has settled and the
\* persistence call has returned before an optimization call starts, every
\* optimization call has returned before executeGeoDeploy is called, and no
\* stage is entered twice: no collaborator is called more often than once per
\* item and no step takes the run back to an earlier stage.
C23_StagesInOrder ==
    /\ [](entry = "runPipeline" =>
            /\ (genTasks # <<>> \/ calls.generation > 0) =>
                  /\ Validated /\ project.status = "VALIDATED"
                  /\ calls.generation = Len(brief.targetLocales.items)
                  /\ Len(genTasks) = calls.generation
            /\ (pc = "optimizing" \/ seoTasks # <<>> \/ calls.keywords > 0) =>
                  /\ PendingTasks = {}
                  /\ output.kind = "output"
                  /\ calls.persistence = 1
                  /\ Len(seoTasks) = Len(output.variants)
                  /\ calls.keywords <= Len(output.variants)
            /\ (deployArgs.kind = "args" \/ calls.deployment > 0) =>
                  /\ pc \in {"deploy", "deploying", "telemetry", "done", "failed"}
                  /\ FulfilledOptimizations = 1..Len(seoTasks)
                  /\ Len(seoTasks) = Len(output.variants)
            /\ calls.persistence <= 1 /\ calls.deployment <= 1 /\ calls.telemetry <= 1
            /\ calls.telemetry <= calls.deployment)
    /\ [][entry = "runPipeline" => StageOf(pc') >= StageOf(pc)]_vars

\* C23 witness: a run went through the four stages with three locales
C23_Witness ==
    /\ entry = "runPipeline"
    /\ pc = "done"
    /\ calls = [generation |-> 3, persistence |-> 1, keywords |-> 3,
                deployment |-> 1, telemetry |-> 1]

\* C24: in executeGeoDeploy the telemetry provisioner is called only after the
\* deployment provider has returned, with the identifier it returned, and the
\* telemetryEndpoint of the descriptor is the endpoint of the descriptor's own
\* deploymentId.
C24_TelemetryAfterDeployment ==
    /\ pc = "deploying" =>
          /\ calls.deployment = 1 /\ calls.telemetry = 0
          /\ deployment.deploymentId = ""
    /\ calls.telemetry > 0 =>
          /\ calls.deployment = 1 /\ calls.telemetry = 1
          /\ pc \in {"telemetry", "done"}
          /\ StartsWith(deployment.deploymentId, "dpl_")
    /\ descriptor.kind = "descriptor" =>
          /\ descriptor.deploymentId = deployment.deploymentId
          /\ descriptor.telemetryEndpoint = TelemetryBase \o descriptor.deploymentId

\* C24 witness: a direct call returned a descriptor after both calls, the
\* provider having answered at the second clock value
C24_Witness ==
    /\ entry = "executeGeoDeploy"
    /\ pc = "done"
    /\ calls.deployment = 1 /\ calls.telemetry = 1
    /\ descriptor.deploymentId = "dpl_fra1_2"
    /\ descriptor.telemetryEndpoint = TelemetryBase \o "dpl_fra1_2"

\* C27 as stated: deploymentId embeds the region of the descriptor, and no
\* two deployments to the same region, concurrent runs included, receive the
\* same deploymentId.
C27_DeploymentIdsDistinct ==
    descriptor.kind = "descriptor" =>
        /\ StartsWith(descriptor.deploymentId, "dpl_" \o descriptor.edgeRegion \o "_")
        /\ descriptor.deploymentId \notin issued

\* C25 as stated: the failure list of a generation outcome has one message for
\* each failed task, in task order, and each message names the locale of its
\* task, whatever reason the provider gave.
C25_FailuresNameTheirLocale ==
    (entry = "generateCreatives" /\ output.kind = "output") =>
        LET targets == project.payload.targetLocales.items
            failed  == PickInOrder(targets, RejectedTasks, Len(targets))
        IN  /\ Len(FailureMessages(output)) = Len(failed)
            /\ \A k \in 1..Len(failed) :
                  Contains(FailureMessages(output)[k], failed[k])

\* C26: if every generation task eventually settles, the other collaborators
\* returning as they do, a run eventually ends, with a descriptor or with an
\* error; if a generation task stays pending for ever, the run never reaches
\* optimization or deployment and never ends.
C26_EndsUnlessATaskHangs ==
    /\ WF_vars(SettleGeneration) =>
          <>(/\ Ended
             /\ pc = "done" => descriptor.kind = "descriptor"
             /\ pc = "failed" => (error # "" /\ IsMissing(descriptor)))
    /\ (<>[](PendingTasks # {})) =>
          [](/\ ~Ended
             /\ pc \in {"validateInput", "validated", "generating"}
             /\ seoTasks = <<>> /\ calls.keywords = 0
             /\ IsMissing(deployArgs) /\ calls.deployment = 0)

\* C26 witness: of three tasks one failed, one succeeded and one is pending,
\* and the run can take no step until that task settles
C26_Witness ==
    /\ entry = "runPipeline"
    /\ pc = "generating"
    /\ Cardinality(PendingTasks) = 1
    /\ Cardinality(RejectedTasks) = 1
    /\ Cardinality(FulfilledTasks) = 1
    /\ ~ENABLED CoreStep

\* the text cut as the metadata rule cuts it: at most limit characters, the
\* last three of a cut text being the ellipsis marker
CutTo(text, limit) ==
    IF Len(text) > limit THEN SubSeq(text, 1, limit - 3) \o "..." ELSE text

\* the first n characters of a text
FirstChars(text, n) == IF Len(text) > n THEN SubSeq(text, 1, n) ELSE text

\* C28: for every variant optimizeSEO accepts, the title is the headline, " | "
\* and the primary keyword cut to 60 characters, and the description is the
\* first 100 characters of the body, the ellipsis (followed by a space) and the
\* call-to-action text cut to 160 characters; so the title never exceeds 60 and
\* the description never exceeds 160 characters.
C28_TitleAndDescriptionBounded ==
    (entry = "optimizeSEO" /\ ret.kind = "return") =>
        LET seo == ret.value.seo
            primary == Head(stubKeywordDatabase(arg.locale))
        IN  /\ seo.title = CutTo(arg.heroTitle \o " | " \o primary, 60)
            /\ seo.description =
                   CutTo(FirstChars(arg.bodyCopy, 100) \o "... " \o arg.ctaText, 160)
            /\ Len(seo.title) <= 60
            /\ Len(seo.description) <= 160

\* C28 witness: a long headline, a body of more than 100 characters and a long
\* call to action gave a title of 60 and a description of 160 characters
C28_Witness ==
    /\ entry = "optimizeSEO"
    /\ ret.kind = "return"
    /\ Len(arg.heroTitle) > 60
    /\ Len(arg.bodyCopy) > 100
    /\ Len(arg.ctaText) > 60
    /\ Len(ret.value.seo.title) = 60
    /\ Len(ret.value.seo.description) = 160

\* every generation task of the run has failed
AllGenerationFailed ==
    /\ genTasks # <<>>
    /\ \A i \in 1..Len(genTasks) : genTasks[i].status = "rejected"

\* C29: in a run of runPipeline whose brief passed validation and whose
\* generation tasks all failed, the run goes on: generation returns no variant,
\* the optimization stage starts no optimization and does not fail,
\* executeGeoDeploy is called with an empty list, and the run ends with the
\* deployment stage's invariant error, never with a descriptor.
C29_EmptyOutcomeReachesDeployment ==
    (entry = "runPipeline" /\ AllGenerationFailed) =>
        /\ Validated /\ project.status = "VALIDATED"
        /\ pc \in {"generating", "persisting", "optimizing", "deploy", "failed"}
        /\ calls.keywords = 0 /\ calls.deployment = 0 /\ calls.telemetry = 0
        /\ IsMissing(deployment) /\ IsMissing(descriptor)
        /\ pc = "generating" => (error = "" /\ ENABLED AggregateAndPersist)
        /\ pc = "persisting" =>
              /\ output.variants = <<>>
              /\ error = ""
              /\ ENABLED StartOptimization
        /\ pc = "optimizing" =>
              /\ seoTasks = <<>>
              /\ error = ""
              /\ ENABLED CallDeploy /\ ~ENABLED OptimizationFails
        /\ pc = "deploy" => (error = "" /\ ENABLED ExecuteGeoDeploy)
        /\ pc = "failed" => error = DeployError
        /\ pc \in {"deploy", "failed"} =>
              (deployArgs.kind = "args" /\ deployArgs.seoVariants = Array(<<>>))

\* C29 witness: a run whose three generation tasks all failed has ended with
\* the deployment stage's invariant error
C29_Witness ==
    /\ entry = "runPipeline"
    /\ Len(genTasks) = 3
    /\ AllGenerationFailed
    /\ calls.persistence = 1
    /\ deployArgs.kind = "args"
    /\ pc = "failed"
    /\ error = DeployError

\* the validator's classification of one locale: the policy of a brief of that
\* locale alone keeps the data in the EU
PolicyIsEu(locale) == computeGeoCompliance(<<locale>>).dataResidency = "EU"

\* C30 as stated: the deployment stage classifies every locale it deploys as
\* the validator's policy classifies it, and so a run of a validated brief
\* whose every locale is EU for the policy, all of them generated, is deployed
\* to the European region.
C30_EuClassificationAgrees ==
    (entry = "runPipeline" /\ deployment.kind = "deployment") =>
        LET targets == project.payload.targetLocales.items
            locs    == localesOf(deployArgs.seoVariants.items)
        IN  /\ \A i \in 1..Len(locs) : isEuLocale(locs[i]) = PolicyIsEu(locs[i])
            /\ ( /\ \A i \in 1..Len(targets) : PolicyIsEu(targets[i])
                 /\ locs = targets ) =>
                   deployment.targetRegion = "fra1"

\* C31: every policy validateInput returns, for a brief of either status, has
\* requiresGDPR equal to cookieConsentActive and dataResidency EU exactly when
\* requiresGDPR is true, GLOBAL otherwise; the residency is never US.
C31_PolicyIsCoherent ==
    (entry = "validateInput" /\ Validated) =>
        LET policy == project.compliance
        IN  /\ project.status \in {"VALIDATED", "FAILED"}
            /\ policy.requiresGDPR = policy.cookieConsentActive
            /\ policy.dataResidency = "EU" <=> policy.requiresGDPR
            /\ policy.dataResidency = "GLOBAL" <=> ~policy.requiresGDPR
            /\ policy.dataResidency # "US"

\* C31 witness: a brief that failed validation, with no EU locale, received
\* the policy of GLOBAL residency with both flags off
C31_Witness ==
    /\ entry = "validateInput"
    /\ Validated
    /\ project.status = "FAILED"
    /\ Len(brief.targetLocales.items) > 0
    /\ project.compliance.dataResidency = "GLOBAL"
    /\ ~project.compliance.requiresGDPR

\* C31 second case: a brief that passed validation received the EU policy
C31_WitnessEu ==
    /\ entry = "validateInput"
    /\ Validated
    /\ project.status = "VALIDATED"
    /\ project.compliance.dataResidency = "EU"
    /\ project.compliance.cookieConsentActive

\* C32: of two runs of the generation and optimization stages on validated
\* projects that have the same brief and differ only in their policy, with the
\* same outcome of every per-locale task, the generation tasks, the generation
\* outcome and the optimized variants are the same at every step.
C32_StagesIgnoreThePolicy ==
    entry = "pairedRuns" =>
        /\ arg.project.compliance # project.compliance
        /\ [arg.project EXCEPT !.compliance = project.compliance] = project
        /\ arg.genTasks = genTasks
        /\ arg.output = output
        /\ arg.seoTasks = seoTasks

\* C32 witness: a run of an EU policy and its pair of a non-EU policy, one
\* locale failed to generate and another generated and optimized
C32_Witness ==
    /\ entry = "pairedRuns"
    /\ project.compliance.requiresGDPR
    /\ ~arg.project.compliance.requiresGDPR
    /\ pc = "optimizing"
    /\ RejectedTasks # {}
    /\ \E i \in 1..Len(seoTasks) :
          seoTasks[i].status = "fulfilled" /\ arg.seoTasks[i].status = "fulfilled"

\* C33: the variant optimizeSEO returns has the locale, headline, body,
\* call-to-action text and layout identifier of the input variant, whatever the
\* metadata built from them, and no step of the call changes the input variant.
C33_ContentFieldsPreserved ==
    /\ [](( entry = "optimizeSEO" /\ ret.kind = "return" ) =>
             /\ ret.value.locale = arg.locale
             /\ ret.value.heroTitle = arg.heroTitle
             /\ ret.value.bodyCopy = arg.bodyCopy
             /\ ret.value.ctaText = arg.ctaText
             /\ ret.value.layoutId = arg.layoutId)
    /\ [][entry = "optimizeSEO" => arg' = arg]_vars

\* C33 witness: a variant whose headline and body are longer than the title
\* and description made from them was returned with both in full
C33_Witness ==
    /\ entry = "optimizeSEO"
    /\ pc = "done"
    /\ ret.kind = "return"
    /\ Len(arg.heroTitle) > 60
    /\ Len(arg.bodyCopy) > 100
    /\ ret.value.heroTitle = arg.heroTitle
    /\ ret.value.bodyCopy = arg.bodyCopy
    /\ ret.value.seo.title # arg.heroTitle
    /\ arg \in SeoCalls

====
